---------------------------- MODULE Spec2Model ----------------------------
(***************************************************************************)
(* Health_GenData: the batch generator (health_data_generator.py) and the  *)
(* analyzer (data_analyzer.py), modelled as one state machine.             *)
(*                                                                         *)
(* Text is a sequence of tokens (one-character strings, or a longer string *)
(* where the inside of the token plays no role).  A Python value is tagged *)
(* with its type, as isinstance() sees it: int, float, str or list.  A     *)
(* float is held in hundredths (23.4 is 2340), which is exact for every    *)
(* value the generator rounds to 1 or 2 decimals.                          *)
(* Non-ASCII literals of the source are written in ASCII: gender "M"/"F"   *)
(* for the two entries of self.genders, and English keys for the result    *)
(* dictionaries of the analyzer.                                           *)
(***************************************************************************)
EXTENDS Integers, Sequences, FiniteSets, TLC

VARIABLES
    config,        \* HealthDataGenerator.config
    config0,       \* the configuration as the constructor returned it
    fs,            \* the directory written and read: person folders and csv file
    pc,            \* position of generate_batch_data
    num_people,    \* argument of generate_batch_data
    out_dir,       \* local output_dir of generate_batch_data
    i,             \* loop counter of generate_batch_data
    all_data,      \* local all_data of generate_batch_data
    attempts,      \* per iteration: the record it generated and how it ended
    lpc,           \* position of the analyzer
    data_dir,      \* HealthDataAnalyzer.data_dir
    json_files,    \* load_from_json_files: files of the glob not yet visited
    opened,        \* the health_data.json files the loader has opened
    data,          \* HealthDataAnalyzer.data
    demographics,  \* result of analyze_demographics
    health_metrics, \* result of analyze_health_metrics
    medical_history, \* result of analyze_medical_history
    report         \* result of generate_report

vars == <<config, config0, fs, pc, num_people, out_dir, i, all_data, attempts,
          lpc, data_dir, json_files, opened, data, demographics,
          health_metrics, medical_history, report>>

genVars == <<config, config0, pc, num_people, out_dir, i, all_data, attempts>>
loadVars == <<lpc, data_dir, json_files, opened, data>>
statVars == <<demographics, health_metrics, medical_history, report>>

---------------------------------------------------------------------------
(* Bounds *)

\* largest num_people of a call
MaxPeople == 2

\* largest number of records handed to the analyses directly
MaxRows == 2

---------------------------------------------------------------------------
(* Python values *)

IntV(n) == [t |-> "int", v |-> n]
FloatV(h) == [t |-> "float", v |-> h]
StrV(s) == [t |-> "str", v |-> s]
ListV(l) == [t |-> "list", v |-> l]

\* a Python dict as a function; d.update(e) and {**d, **e}: the keys of e win
Update(d, e) == e @@ d

\* dict.get-style membership: key in row
Has(row, key) == key \in DOMAIN row

\* truthiness of a value, as "if value" / "and row[metric]" test it
Truthy(x) ==
    CASE x.t = "int" -> x.v # 0
      [] x.t = "float" -> x.v # 0
      [] x.t = "str" -> x.v # <<>>
      [] x.t = "list" -> x.v # <<>>

RECURSIVE SumSeq(_)
SumSeq(s) == IF s = <<>> THEN 0 ELSE Head(s) + SumSeq(Tail(s))

Range(s) == {s[k] : k \in DOMAIN s}

---------------------------------------------------------------------------
(* str(), repr(), int(), float() on the values the csv file carries *)

DigitChars == <<"0", "1", "2", "3", "4", "5", "6", "7", "8", "9">>

DigitOf(c) == CHOOSE d \in 0..9 : DigitChars[d + 1] = c

IsDigit(c) == \E d \in 0..9 : DigitChars[d + 1] = c

\* str(n) of an int n >= 0
RECURSIVE IntToStr(_)
IntToStr(n) ==
    IF n < 10 THEN <<DigitChars[n + 1]>>
    ELSE IntToStr(n \div 10) \o <<DigitChars[(n % 10) + 1]>>

\* a float written with one decimal
FloatToStr_OneDecimal(h) ==
    IntToStr(h \div 100) \o <<".">> \o <<DigitChars[((h % 100) \div 10) + 1]>>

\* repr(x) of a float x >= 0 held in hundredths: the shortest decimal, with at
\* least one digit after the point (20.0, 23.4, 22.49)
FloatToStr(h) ==
    LET whole == IntToStr(h \div 100)
        f == h % 100
        frac == IF f % 10 = 0 THEN <<DigitChars[(f \div 10) + 1]>>
                ELSE <<DigitChars[(f \div 10) + 1], DigitChars[(f % 10) + 1]>>
    IN whole \o <<".">> \o frac

\* the csv writer's text of a cell: str(value) of a number, the text itself
CellText(x) ==
    CASE x.t = "int" -> IntToStr(x.v)
      [] x.t = "float" -> FloatToStr(x.v)
      [] x.t = "str" -> x.v

AllDigits(s) == s # <<>> /\ \A k \in DOMAIN s : IsDigit(s[k])

RECURSIVE DigitsValue(_)
DigitsValue(s) ==
    IF s = <<>> THEN 0
    ELSE 10 * DigitsValue(SubSeq(s, 1, Len(s) - 1)) + DigitOf(s[Len(s)])

\* int(text) accepts a run of digits; anything else raises ValueError
IntParses(s) == AllDigits(s)
StrToInt(s) == DigitsValue(s)

PointAt(s) == CHOOSE k \in DOMAIN s : s[k] = "."

\* float(text) accepts digits, optionally followed by a point and digits
\* (at most two of them are representable in hundredths)
FloatParses(s) ==
    \/ AllDigits(s)
    \/ /\ \E k \in DOMAIN s : s[k] = "."
       /\ LET p == PointAt(s)
          IN /\ AllDigits(SubSeq(s, 1, p - 1))
             /\ Len(s) - p \in 1..2
             /\ AllDigits(SubSeq(s, p + 1, Len(s)))

StrToFloat(s) ==
    IF AllDigits(s) THEN 100 * DigitsValue(s)
    ELSE LET p == PointAt(s)
             fr == SubSeq(s, p + 1, Len(s))
         IN 100 * DigitsValue(SubSeq(s, 1, p - 1))
            + (IF Len(fr) = 1 THEN 10 * DigitsValue(fr) ELSE DigitsValue(fr))

---------------------------------------------------------------------------
(* '; '.join(list), and text.split(';') with strip() *)

\* a join with ', '
RECURSIVE Join_Comma(_)
Join_Comma(l) ==
    IF l = <<>> THEN <<>>
    ELSE IF Len(l) = 1 THEN l[1]
    ELSE l[1] \o <<",", " ">> \o Join_Comma(Tail(l))

RECURSIVE Join(_)
Join(l) ==
    IF l = <<>> THEN <<>>
    ELSE IF Len(l) = 1 THEN l[1]
    ELSE l[1] \o <<";", " ">> \o Join(Tail(l))

\* text.split(';'): the pieces between the semicolons, empty ones included
RECURSIVE Split(_)
Split(s) ==
    IF \A k \in DOMAIN s : s[k] # ";" THEN <<s>>
    ELSE LET p == CHOOSE k \in DOMAIN s :
                     s[k] = ";" /\ \A j \in 1..(k - 1) : s[j] # ";"
         IN <<SubSeq(s, 1, p - 1)>> \o Split(SubSeq(s, p + 1, Len(s)))

RECURSIVE Strip(_)
Strip(s) ==
    IF s = <<>> THEN s
    ELSE IF Head(s) = " " THEN Strip(Tail(s))
    ELSE IF s[Len(s)] = " " THEN Strip(SubSeq(s, 1, Len(s) - 1))
    ELSE s

\* [a.strip() for a in text.split(';') if a.strip()]
RECURSIVE StripNonEmpty(_)
StripNonEmpty(parts) ==
    IF parts = <<>> THEN <<>>
    ELSE LET a == Strip(Head(parts))
         IN (IF a # <<>> THEN <<a>> ELSE <<>>) \o StripNonEmpty(Tail(parts))

SplitItems(s) == StripNonEmpty(Split(s))

---------------------------------------------------------------------------
(* The generator: one record *)

\* directories a caller or a configuration file can name
Dirs == {"dA", "dB"}

\* no output_directory argument (None)
NoArg == "None"

\* names generate_name can return (surname + given name)
Names == {<<"Li", "An">>, <<"Wu", "An">>}

\* round(x, 1) of a float held in hundredths
Round1(h) == ((h + 5) \div 10) * 10

\* round(a / b) for a >= 0, b > 0
RoundDiv(a, b) == (2 * a + b) \div (2 * b)

\* generate_phone: the prefix "09" and 8 digits
generate_phone(digits) == <<"0", "9">> \o [k \in 1..8 |-> DigitChars[digits[k] + 1]]

\* generate_email: user<4 digits>@<domain>
generate_email(number, domain) == <<"user">> \o IntToStr(number) \o <<"@", domain>>

\* generate_id_number: a letter, 1 or 2, and 7 digits
generate_id_number(letter, gender_digit, digits) ==
    <<letter, DigitChars[gender_digit + 1]>> \o [k \in 1..7 |-> DigitChars[digits[k] + 1]]

\* calculate_bmi: round(weight / (height / 100) ** 2, 2), height and weight in
\* hundredths, in steps that stay inside 32-bit integers
calculate_bmi(height, weight) ==
    LET a == (weight \div 10) * 100000
        b == (height \div 10) * (height \div 10)
        r == a % b
        cents == (r * 100) \div b
        r2 == (r * 100) % b
    IN (a \div b) * 100 + cents + (IF 2 * r2 >= b THEN 1 ELSE 0)

\* the random draws of one iteration, other than the name
Draw1 ==
    [age |-> 18, gender |-> "M", height |-> 17004, weight |-> 6498,
     blood_type |-> "A", phone |-> <<1, 2, 3, 4, 5, 6, 7, 8>>,
     email_number |-> 1000, domain |-> "gmail.com", address |-> "Taipei",
     emergency |-> <<8, 7, 6, 5, 4, 3, 2, 1>>,
     id_letter |-> "A", id_gender |-> 1, id_digits |-> <<0, 1, 2, 3, 4, 5, 6>>,
     systolic |-> 125, diastolic |-> 70, heart_rate |-> 60,
     temperature |-> 3652, sugar |-> 10000, cholesterol |-> 20000, now |-> "t1",
     allergies |-> <<<<"pollen">>, <<"dust", " ", "mites">>>>,
     chronic_diseases |-> <<>>,
     medications |-> <<<<"vitamins">>>>,
     surgeries |-> <<>>,
     family_history |-> <<<<"stroke">>, <<"cancer">>, <<"diabetes">>>>]

Draw2 ==
    [age |-> 80, gender |-> "F", height |-> 15000, weight |-> 4500,
     blood_type |-> "AB", phone |-> <<0, 0, 0, 0, 0, 0, 0, 0>>,
     email_number |-> 9999, domain |-> "yahoo.com.tw", address |-> "Tainan",
     emergency |-> <<9, 9, 9, 9, 9, 9, 9, 9>>,
     id_letter |-> "Z", id_gender |-> 2, id_digits |-> <<9, 9, 9, 9, 9, 9, 9>>,
     systolic |-> 140, diastolic |-> 90, heart_rate |-> 100,
     temperature |-> 3700, sugar |-> 12000, cholesterol |-> 15000, now |-> "t2",
     allergies |-> <<>>,
     chronic_diseases |-> <<<<"asthma">>, <<"diabetes">>>>,
     medications |-> <<>>,
     surgeries |-> <<<<"appendectomy">>>>,
     family_history |-> <<>>]

Draws == {Draw1, Draw2}

\* generate_personal_info
generate_personal_info(name, d) ==
    [name |-> StrV(name),
     age |-> IntV(d.age),
     gender |-> StrV(<<d.gender>>),
     height |-> FloatV(Round1(d.height)),
     weight |-> FloatV(Round1(d.weight)),
     blood_type |-> StrV(<<d.blood_type>>),
     phone |-> StrV(generate_phone(d.phone)),
     email |-> StrV(generate_email(d.email_number, d.domain)),
     address |-> StrV(<<d.address>>),
     emergency_contact |-> StrV(generate_phone(d.emergency)),
     id_number |-> StrV(generate_id_number(d.id_letter, d.id_gender, d.id_digits))]

\* generate_health_metrics with the bmi of the height and weight as drawn,
\* before generate_personal_info rounded them
generate_health_metrics_RawBmi(person, d) ==
    [bmi |-> FloatV(calculate_bmi(d.height, d.weight)),
     blood_pressure_systolic |-> IntV(d.systolic),
     blood_pressure_diastolic |-> IntV(d.diastolic),
     heart_rate |-> IntV(d.heart_rate),
     body_temperature |-> FloatV(Round1(d.temperature)),
     blood_sugar |-> FloatV(10 * RoundDiv(d.sugar * (70 + person.age.v), 1000)),
     cholesterol |-> FloatV(10 * RoundDiv(d.cholesterol * (70 + person.age.v), 1000)),
     created_date |-> StrV(<<d.now>>)]

\* generate_health_metrics; age_factor = 1 + (age - 30) * 0.01 = (70 + age) / 100
generate_health_metrics(person, d) ==
    [bmi |-> FloatV(calculate_bmi(person.height.v, person.weight.v)),
     blood_pressure_systolic |-> IntV(d.systolic),
     blood_pressure_diastolic |-> IntV(d.diastolic),
     heart_rate |-> IntV(d.heart_rate),
     body_temperature |-> FloatV(Round1(d.temperature)),
     blood_sugar |-> FloatV(10 * RoundDiv(d.sugar * (70 + person.age.v), 1000)),
     cholesterol |-> FloatV(10 * RoundDiv(d.cholesterol * (70 + person.age.v), 1000)),
     created_date |-> StrV(<<d.now>>)]

\* generate_medical_history
generate_medical_history(d) ==
    [allergies |-> ListV(d.allergies),
     chronic_diseases |-> ListV(d.chronic_diseases),
     medications |-> ListV(d.medications),
     surgeries |-> ListV(d.surgeries),
     family_history |-> ListV(d.family_history)]

\* the key order of {**asdict(person), **asdict(health), **asdict(medical)}
FieldOrder ==
    <<"name", "age", "gender", "height", "weight", "blood_type", "phone", "email",
      "address", "emergency_contact", "id_number",
      "bmi", "blood_pressure_systolic", "blood_pressure_diastolic", "heart_rate",
      "body_temperature", "blood_sugar", "cholesterol", "created_date",
      "allergies", "chronic_diseases", "medications", "surgeries", "family_history">>

ListFields == {"allergies", "chronic_diseases", "medications", "surgeries", "family_history"}

---------------------------------------------------------------------------
(* Files *)

Absent == [kind |-> "absent"]

\* a health_data.json cut short by a failed json.dump
Truncated == [kind |-> "malformed"]

JsonDoc(groups) == [kind |-> "doc", groups |-> groups]

CsvFile(header, rows) == [kind |-> "csv", header |-> header, rows |-> rows]

NoFolder == [exists |-> FALSE, json |-> Absent]

EmptyDir == [persons |-> [n \in Names |-> NoFolder], csv |-> Absent]

\* save_person_data: the document json.dump writes
person_data(person, health, medical) ==
    [personal_info |-> person, health_metrics |-> health, medical_history |-> medical]

\* where an iteration can raise
FailPoints == {"generate", "mkdir", "copy", "open", "dump"}

\* a folder path that leaves the person's name out
create_person_folder_Shared(dir, name) ==
    [dir EXCEPT !.persons[CHOOSE n \in Names : TRUE].exists = TRUE]

\* create_person_folder: the folder exists afterwards, what it holds stays
\* (the copy of the template image into it is not tracked; it can raise)
create_person_folder(dir, name) ==
    [dir EXCEPT !.persons[name].exists = TRUE]

\* a writer that keeps a health_data.json that is already there
save_person_data_KeepsFirst(dir, name, doc, cfg, point) ==
    IF ~cfg.generate_json \/ point = "open" THEN dir
    ELSE IF dir.persons[name].json.kind = "doc" THEN dir
    ELSE IF point = "dump" THEN [dir EXCEPT !.persons[name].json = Truncated]
    ELSE [dir EXCEPT !.persons[name].json = JsonDoc(doc)]

\* a writer that does not test generate_json
save_person_data_Always(dir, name, doc, cfg, point) ==
    IF point = "open" THEN dir
    ELSE IF point = "dump" THEN [dir EXCEPT !.persons[name].json = Truncated]
    ELSE [dir EXCEPT !.persons[name].json = JsonDoc(doc)]

\* save_person_data, reached only when create_folders is set: with generate_json
\* the file is opened for writing and the document dumped; a dump that raises
\* leaves the opened file cut short
save_person_data(dir, name, doc, cfg, point) ==
    IF ~cfg.generate_json \/ point = "open" THEN dir
    ELSE IF point = "dump" THEN [dir EXCEPT !.persons[name].json = Truncated]
    ELSE [dir EXCEPT !.persons[name].json = JsonDoc(doc)]

\* the file system after the body of the try block, run up to `point`
IterationFs(dir, name, doc, cfg, point) ==
    IF ~cfg.create_folders \/ point \in {"generate", "mkdir"} THEN dir
    ELSE IF point = "copy" THEN create_person_folder(dir, name)
    ELSE save_person_data(create_person_folder(dir, name), name, doc, cfg, point)

\* the points that exist under a configuration
PointsOf(cfg) ==
    {"none", "generate"}
        \cup (IF cfg.create_folders THEN {"mkdir"} ELSE {})
        \cup (IF cfg.create_folders /\ cfg.copy_template THEN {"copy"} ELSE {})
        \cup (IF cfg.create_folders /\ cfg.generate_json THEN {"open", "dump"} ELSE {})

\* save_csv_data: list values joined with '; ' ('' for an empty list)
ProcessedCell(x) == IF x.t = "list" THEN Join(x.v) ELSE CellText(x)

ProcessedRow(row, header) == [k \in DOMAIN header |-> ProcessedCell(row[header[k]])]

\* a writer that takes the first record for the header only
save_csv_data_FirstRowLost(dir, rows) ==
    IF rows = <<>> THEN dir
    ELSE [dir EXCEPT !.csv =
             CsvFile(FieldOrder,
                     [k \in DOMAIN Tail(rows) |-> ProcessedRow(Tail(rows)[k], FieldOrder)])]

\* save_csv_data: header from the first row's keys, then one row per record
save_csv_data(dir, rows) ==
    IF rows = <<>> THEN dir
    ELSE [dir EXCEPT !.csv =
             CsvFile(FieldOrder, [k \in DOMAIN rows |-> ProcessedRow(rows[k], FieldOrder)])]

---------------------------------------------------------------------------
(* generate_batch_data *)

\* the output_directory of default_config; a configuration file may name
\* another one, and directories are interchangeable labels here
DefaultDir == "dA"

\* the configurations _load_config can return: the defaults, each flag
\* replaceable by the configuration file
Configs ==
    [output_directory : {DefaultDir}, template_image : {"1.png"},
     generate_csv : BOOLEAN, generate_json : BOOLEAN, create_folders : BOOLEAN,
     copy_template : BOOLEAN]

\* what the loop body leaves in all_data
Collect(all, rec, point) == IF point = "none" THEN Append(all, rec) ELSE all

\* a loop that stops at the first iteration that raises
NextIndexStopping(idx, point, n) == IF point = "none" THEN idx + 1 ELSE n

\* the loop goes on to the next index whether or not the body raised
NextIndex(idx, point, n) == idx + 1

\* the log of one iteration: where it raised ("none": it did not) and what is
\* known of the record at that point
Attempt(name, rec, point) ==
    IF point = "none" THEN [point |-> point, name |-> name, rec |-> rec]
    ELSE IF point = "generate" THEN [point |-> point]
    ELSE [point |-> point, name |-> name]

\* if output_directory: self.config["output_directory"] = output_directory
ConfigAfterCall(cfg, arg) ==
    IF arg # NoArg THEN [cfg EXCEPT !.output_directory = arg] ELSE cfg

\* the csv step after the loop
CsvStep(dir, cfg, all) ==
    IF cfg.generate_csv /\ all # <<>> THEN save_csv_data(dir, all) ELSE dir

Call(n, arg) ==
    /\ pc = "idle"
    /\ config' = ConfigAfterCall(config, arg)
    /\ out_dir' = config'.output_directory
    /\ num_people' = n
    /\ i' = 0
    /\ all_data' = <<>>
    /\ attempts' = <<>>
    /\ pc' = "loop"
    /\ UNCHANGED <<config0, fs, loadVars, statVars>>

Iterate(name, d, point) ==
    /\ pc = "loop"
    /\ i < num_people
    /\ point \in PointsOf(config)
    /\ LET person == generate_personal_info(name, d)
           health == generate_health_metrics(person, d)
           medical == generate_medical_history(d)
           rec == Update(Update(person, health), medical)
       IN /\ fs' = IterationFs(fs, name, person_data(person, health, medical),
                               config, point)
          /\ all_data' = Collect(all_data, rec, point)
          /\ attempts' = Append(attempts, Attempt(name, rec, point))
    /\ i' = NextIndex(i, point, num_people)
    /\ UNCHANGED <<config, config0, pc, num_people, out_dir, loadVars, statVars>>

\* KeyboardInterrupt is no Exception: it leaves the loop and the call
Interrupt ==
    /\ pc = "loop"
    /\ i < num_people
    /\ pc' = "interrupted"
    /\ UNCHANGED <<config, config0, fs, num_people, out_dir, i, all_data, attempts,
                   loadVars, statVars>>

Return ==
    /\ pc = "loop"
    /\ i >= num_people
    /\ fs' = CsvStep(fs, config, all_data)
    /\ pc' = "returned"
    /\ UNCHANGED <<config, config0, num_people, out_dir, i, all_data, attempts,
                   loadVars, statVars>>

---------------------------------------------------------------------------
(* HealthDataAnalyzer: loading *)

IntKeys == {"age", "blood_pressure_systolic", "blood_pressure_diastolic", "heart_rate"}

FloatKeys == {"height", "weight", "bmi", "body_temperature", "blood_sugar", "cholesterol"}

\* load_from_csv: does the conversion of this cell raise ValueError
CellRaises(key, text) ==
    /\ text # <<>>
    /\ \/ key \in IntKeys /\ ~IntParses(text)
       \/ key \in FloatKeys /\ ~FloatParses(text)

\* load_from_csv: the value a cell is loaded as
LoadedCell(key, text) ==
    IF key \in IntKeys THEN IntV(IF text # <<>> THEN StrToInt(text) ELSE 0)
    ELSE IF key \in FloatKeys THEN FloatV(IF text # <<>> THEN StrToFloat(text) ELSE 0)
    ELSE StrV(text)

RowRaises(header, row) == \E k \in DOMAIN header : CellRaises(header[k], row[k])

LoadedRow(header, row) ==
    [key \in Range(header) |->
        LoadedCell(key, row[CHOOSE k \in DOMAIN header : header[k] = key])]

\* the rows before the first one whose conversion raises
GoodPrefix(header, rows) ==
    IF \E k \in DOMAIN rows : RowRaises(header, rows[k])
    THEN (CHOOSE k \in DOMAIN rows :
              /\ RowRaises(header, rows[k])
              /\ \A j \in 1..(k - 1) : ~RowRaises(header, rows[j])) - 1
    ELSE Len(rows)

\* load_from_csv: self.data after the loop, or when the loop raised
load_from_csv(file) ==
    [k \in 1..GoodPrefix(file.header, file.rows) |-> LoadedRow(file.header, file.rows[k])]

CsvRaises(file) == GoodPrefix(file.header, file.rows) < Len(file.rows)

Groups == <<"personal_info", "health_metrics", "medical_history">>

\* load_from_json_files: json.load or one of the three data[...] raises
JsonRaises(file) ==
    \/ file.kind # "doc"
    \/ \E k \in DOMAIN Groups : Groups[k] \notin DOMAIN file.groups

\* load_from_json_files: flat_data after the three updates
Flatten(file) ==
    Update(Update(file.groups.personal_info, file.groups.health_metrics),
           file.groups.medical_history)

\* a loader that appends what it had merged when a file fails
AfterJsonFile_Partial(loaded, file) ==
    IF file.kind # "doc" THEN loaded
    ELSE IF ~JsonRaises(file) THEN Append(loaded, Flatten(file))
    ELSE IF "personal_info" \in DOMAIN file.groups
         THEN Append(loaded, file.groups.personal_info)
    ELSE loaded

\* load_from_json_files: self.data after one file
AfterJsonFile(loaded, file) ==
    IF JsonRaises(file) THEN loaded ELSE Append(loaded, Flatten(file))

\* self.data_dir.glob("*/health_data.json")
Glob(dir) == {n \in Names : dir.persons[n].exists /\ dir.persons[n].json.kind # "absent"}

\* load_data: the csv file when it exists, else the json files
UsesCsv(dir) == dir.csv.kind # "absent"

\* a position of the generator at which the analyzer is started
GeneratorOver == pc \in {"returned", "interrupted", "off"}

\* a loader that reads the json files as well as the csv file
FilesToLoad_Both(dir) == Glob(dir)

\* load_data: the files load_from_json_files is to visit
FilesToLoad(dir) == IF UsesCsv(dir) THEN {} ELSE Glob(dir)

\* load_data: self.data once the csv file, if any, has been read
DataAfterCsv(dir) == IF UsesCsv(dir) THEN load_from_csv(dir.csv) ELSE <<>>

Construct ==
    /\ GeneratorOver
    /\ lpc = "none"
    /\ data_dir' = out_dir
    /\ opened' = {}
    /\ data' = DataAfterCsv(fs)
    /\ json_files' = FilesToLoad(fs)
    /\ lpc' = IF UsesCsv(fs) /\ CsvRaises(fs.csv) THEN "raised"
              ELSE IF json_files' = {} THEN "loaded"
              ELSE "json"
    /\ UNCHANGED <<fs, genVars, statVars>>

LoadJson(name) ==
    /\ lpc = "json"
    /\ name \in json_files
    /\ json_files' = json_files \ {name}
    /\ opened' = opened \cup {name}
    /\ data' = AfterJsonFile(data, fs.persons[name].json)
    /\ lpc' = IF json_files' = {} THEN "loaded" ELSE "json"
    /\ UNCHANGED <<fs, genVars, data_dir, statVars>>

---------------------------------------------------------------------------
(* HealthDataAnalyzer: statistics *)

\* a result not computed yet, and the empty dict {}
NotRun == [not_run |-> TRUE]
EmptyDict == [k \in {} |-> 0]

\* a number in hundredths, whether int or float
Num(x) == IF x.t = "int" THEN 100 * x.v ELSE x.v

\* [row[key] for row in rows if key in row]
RECURSIVE Values(_, _)
Values(rows, key) ==
    IF rows = <<>> THEN <<>>
    ELSE (IF Has(Head(rows), key) THEN <<Head(rows)[key]>> ELSE <<>>)
         \o Values(Tail(rows), key)

\* [row[key] for row in rows if key in row and row[key] is not None]
TruthyValues_NotNone(rows, key) == Values(rows, key)

\* [row[key] for row in rows if key in row and row[key]]
RECURSIVE TruthyValues(_, _)
TruthyValues(rows, key) ==
    IF rows = <<>> THEN <<>>
    ELSE (IF Has(Head(rows), key) /\ Truthy(Head(rows)[key])
          THEN <<Head(rows)[key]>> ELSE <<>>)
         \o TruthyValues(Tail(rows), key)

\* dict(Counter(items))
Counter(items) ==
    [x \in Range(items) |-> Cardinality({k \in DOMAIN items : items[k] = x})]

Nums(vals) == [k \in DOMAIN vals |-> Num(vals[k])]

MinOf(ns) == CHOOSE x \in Range(ns) : \A y \in Range(ns) : x <= y
MaxOf(ns) == CHOOSE x \in Range(ns) : \A y \in Range(ns) : x >= y

\* the k-th smallest entry
Kth(ns, k) ==
    CHOOSE x \in Range(ns) :
        /\ Cardinality({j \in DOMAIN ns : ns[j] < x}) < k
        /\ k <= Cardinality({j \in DOMAIN ns : ns[j] <= x})

\* twice statistics.median
Median2(ns) ==
    IF Len(ns) % 2 = 1 THEN 2 * Kth(ns, (Len(ns) + 1) \div 2)
    ELSE Kth(ns, Len(ns) \div 2) + Kth(ns, Len(ns) \div 2 + 1)

\* the largest r in lo..hi with r * r <= n
RECURSIVE ISqrtIn(_, _, _)
ISqrtIn(n, lo, hi) ==
    IF lo = hi THEN lo
    ELSE LET mid == (lo + hi + 1) \div 2
         IN IF mid * mid <= n THEN ISqrtIn(n, mid, hi) ELSE ISqrtIn(n, lo, mid - 1)

ISqrt(n) == ISqrtIn(n, 0, 46340)

SumSquares(ns) == SumSeq([k \in DOMAIN ns |-> ns[k] * ns[k]])

\* statistics.stdev (the sample standard deviation, n - 1 in the divisor) of
\* two or more numbers, rounded to the nearest multiple of unit; the numbers
\* are taken from their minimum on, which leaves the deviation as it is
Stdev(ns, unit) ==
    LET ys == [k \in DOMAIN ns |-> ns[k] - MinOf(ns)]
        n == Len(ns)
        a == n * SumSquares(ys) - SumSeq(ys) * SumSeq(ys)
        b == n * (n - 1) * unit * unit
    IN unit * ((ISqrt((4 * a) \div b) + 1) \div 2)

\* a chain whose first bucket has no lower end
AgeGroupOf_NoLowerEnd(age) ==
    IF age <= 3000 THEN "18-30"
    ELSE IF 3100 <= age /\ age <= 4500 THEN "31-45"
    ELSE IF 4600 <= age /\ age <= 6000 THEN "46-60"
    ELSE IF 6100 <= age /\ age <= 7500 THEN "61-75"
    ELSE "76+"

\* analyze_age_groups: the bucket of one age, by the if/elif chain
AgeGroupOf(age) ==
    IF 1800 <= age /\ age <= 3000 THEN "18-30"
    ELSE IF 3100 <= age /\ age <= 4500 THEN "31-45"
    ELSE IF 4600 <= age /\ age <= 6000 THEN "46-60"
    ELSE IF 6100 <= age /\ age <= 7500 THEN "61-75"
    ELSE "76+"

AgeGroupNames == {"18-30", "31-45", "46-60", "61-75", "76+"}

analyze_age_groups(ages) ==
    [g \in AgeGroupNames |->
        Cardinality({k \in DOMAIN ages : AgeGroupOf(Num(ages[k])) = g})]

\* analyze_demographics
analyze_demographics(rows) ==
    IF rows = <<>> THEN EmptyDict
    ELSE LET ages == Values(rows, "age")
             ns == Nums(ages)
         IN [total |-> Len(rows),
             age_stats |->
                 [mean |-> IF ages # <<>>
                           THEN 10 * RoundDiv(SumSeq(ns), 10 * Len(ns)) ELSE 0,
                  median |-> IF ages # <<>> THEN 10 * RoundDiv(Median2(ns), 20) ELSE 0,
                  min |-> IF ages # <<>> THEN MinOf(ns) ELSE 0,
                  max |-> IF ages # <<>> THEN MaxOf(ns) ELSE 0,
                  stdev |-> IF Len(ages) > 1 THEN Stdev(ns, 10) ELSE 0],
             gender |-> Counter(Values(rows, "gender")),
             blood_type |-> Counter(Values(rows, "blood_type")),
             age_groups |-> analyze_age_groups(ages)]

\* analyze_bmi_categories: the bucket of one bmi, by the if/elif chain
BmiCategoryOf(bmi) ==
    IF bmi < 1850 THEN "underweight"
    ELSE IF 1850 <= bmi /\ bmi < 2500 THEN "normal"
    ELSE IF 2500 <= bmi /\ bmi < 3000 THEN "overweight"
    ELSE "obese"

BmiCategoryNames == {"underweight", "normal", "overweight", "obese"}

analyze_bmi_categories(bmi_values) ==
    [c \in BmiCategoryNames |->
        Cardinality({k \in DOMAIN bmi_values : BmiCategoryOf(Num(bmi_values[k])) = c})]

\* a chain whose first test takes every systolic below 130
BpCategoryOf_Below130(systolic, diastolic) ==
    IF systolic < 13000 /\ diastolic < 8000 THEN "normal"
    ELSE IF 12000 <= systolic /\ systolic < 13000 /\ diastolic < 8000 THEN "elevated"
    ELSE IF (13000 <= systolic /\ systolic < 14000)
            \/ (8000 <= diastolic /\ diastolic < 9000) THEN "stage1"
    ELSE "stage2"

\* analyze_bp_categories: the bucket of one pair, by the if/elif chain
BpCategoryOf(systolic, diastolic) ==
    IF systolic < 12000 /\ diastolic < 8000 THEN "normal"
    ELSE IF 12000 <= systolic /\ systolic < 13000 /\ diastolic < 8000 THEN "elevated"
    ELSE IF (13000 <= systolic /\ systolic < 14000)
            \/ (8000 <= diastolic /\ diastolic < 9000) THEN "stage1"
    ELSE "stage2"

BpCategoryNames == {"normal", "elevated", "stage1", "stage2"}

\* the rows that hold both blood pressure keys
RECURSIVE BpData(_)
BpData(rows) ==
    IF rows = <<>> THEN <<>>
    ELSE (IF Has(Head(rows), "blood_pressure_systolic")
             /\ Has(Head(rows), "blood_pressure_diastolic")
          THEN <<<<Head(rows).blood_pressure_systolic,
                   Head(rows).blood_pressure_diastolic>>>>
          ELSE <<>>)
         \o BpData(Tail(rows))

analyze_bp_categories(bp_data) ==
    [c \in BpCategoryNames |->
        Cardinality({k \in DOMAIN bp_data :
                        BpCategoryOf(Num(bp_data[k][1]), Num(bp_data[k][2])) = c})]

Metrics ==
    {"bmi", "blood_pressure_systolic", "blood_pressure_diastolic", "heart_rate",
     "body_temperature", "blood_sugar", "cholesterol"}

\* the statistics of one metric
MetricStats(vals) ==
    LET ns == Nums(vals)
    IN [mean |-> RoundDiv(SumSeq(ns), Len(ns)),
        median |-> RoundDiv(Median2(ns), 2),
        min |-> MinOf(ns),
        max |-> MaxOf(ns),
        stdev |-> IF Len(ns) > 1 THEN Stdev(ns, 1) ELSE 0]

\* analyze_health_metrics
analyze_health_metrics(rows) ==
    IF rows = <<>> THEN EmptyDict
    ELSE [m \in {m \in Metrics : TruthyValues(rows, m) # <<>>} |->
             MetricStats(TruthyValues(rows, m))]
         @@ [bmi_categories |-> analyze_bmi_categories(TruthyValues(rows, "bmi")),
             blood_pressure_categories |-> analyze_bp_categories(BpData(rows))]

AnalyzeDemographics ==
    /\ lpc = "loaded"
    /\ demographics = NotRun
    /\ demographics' = analyze_demographics(data)
    /\ UNCHANGED <<fs, genVars, loadVars, health_metrics, medical_history, report>>

AnalyzeHealthMetrics ==
    /\ lpc = "loaded"
    /\ health_metrics = NotRun
    /\ health_metrics' = analyze_health_metrics(data)
    /\ UNCHANGED <<fs, genVars, loadVars, demographics, medical_history, report>>

\* the items of one cell: split text, or the list as it is
ItemsOf(x) == IF x.t = "str" THEN SplitItems(x.v) ELSE x.v

\* all_allergies / all_diseases / all_medications: the items of the rows that
\* hold a non-empty value under key, in row order
RECURSIVE AllItems(_, _)
AllItems(rows, key) ==
    IF rows = <<>> THEN <<>>
    ELSE (IF Has(Head(rows), key) /\ Truthy(Head(rows)[key])
          THEN ItemsOf(Head(rows)[key]) ELSE <<>>)
         \o AllItems(Tail(rows), key)

\* the distinct items in the order of their first occurrence
RECURSIVE FirstSeen(_)
FirstSeen(items) ==
    IF items = <<>> THEN <<>>
    ELSE LET init == FirstSeen(SubSeq(items, 1, Len(items) - 1))
             last == items[Len(items)]
         IN IF last \in Range(init) THEN init ELSE Append(init, last)

\* dict(Counter(items)) with the order of its keys: <<item, count>> pairs in
\* insertion order
OrderedCounter(items) ==
    [k \in DOMAIN FirstSeen(items) |->
        <<FirstSeen(items)[k],
          Cardinality({j \in DOMAIN items : items[j] = FirstSeen(items)[k]})>>]

\* analyze_medical_history
analyze_medical_history(rows) ==
    IF rows = <<>> THEN EmptyDict
    ELSE [allergy_stats |-> OrderedCounter(AllItems(rows, "allergies")),
          disease_stats |-> OrderedCounter(AllItems(rows, "chronic_diseases")),
          medication_stats |-> OrderedCounter(AllItems(rows, "medications")),
          allergy_total |-> Len(AllItems(rows, "allergies")),
          disease_total |-> Len(AllItems(rows, "chronic_diseases")),
          medication_total |-> Len(AllItems(rows, "medications"))]

\* sorted by count with the smallest first, then reversed: equal counts come
\* out in the reverse of their insertion order
RECURSIVE SortedByCount_Reversed(_)
SortedByCount_Reversed(pairs) ==
    IF pairs = <<>> THEN <<>>
    ELSE LET rest == SortedByCount_Reversed(SubSeq(pairs, 1, Len(pairs) - 1))
             p == pairs[Len(pairs)]
             pos == Cardinality({k \in DOMAIN rest : rest[k][2] > p[2]})
         IN SubSeq(rest, 1, pos) \o <<p>> \o SubSeq(rest, pos + 1, Len(rest))

\* sorted(items, key=lambda x: x[1], reverse=True): the sort is stable, and
\* reverse=True keeps equal counts in their insertion order
RECURSIVE SortedByCount(_)
SortedByCount(pairs) ==
    IF pairs = <<>> THEN <<>>
    ELSE LET rest == SortedByCount(SubSeq(pairs, 1, Len(pairs) - 1))
             p == pairs[Len(pairs)]
             pos == Cardinality({k \in DOMAIN rest : rest[k][2] >= p[2]})
         IN SubSeq(rest, 1, pos) \o <<p>> \o SubSeq(rest, pos + 1, Len(rest))

\* the [:5] of the two rankings
TopCount == 5

Top(pairs) ==
    SubSeq(SortedByCount(pairs), 1,
           IF Len(pairs) < TopCount THEN Len(pairs) ELSE TopCount)

\* the constant text generate_report returns without data
NoDataReport == [no_data |-> TRUE]

\* one "count (percentage%)" line: (count / total) * 100 to one decimal, in
\* tenths of a percent; a zero total raises ZeroDivisionError
PercentLine(count, total) ==
    IF total = 0 THEN [raised |-> "ZeroDivisionError"]
    ELSE [count |-> count, of |-> total,
          percentage |-> RoundDiv(1000 * count, total)]

PercentLines(counts, total) ==
    [c \in DOMAIN counts |-> PercentLine(counts[c], total)]

\* the sections of the report, from the results of the three analyses
ReportSections(rows) ==
    LET d == analyze_demographics(rows)
        h == analyze_health_metrics(rows)
        m == analyze_medical_history(rows)
    IN [total |-> IF Has(d, "total") THEN d.total ELSE 0,
        age_lines |-> IF Has(d, "age_stats")
                      THEN [mean |-> d.age_stats.mean, min |-> d.age_stats.min,
                            max |-> d.age_stats.max]
                      ELSE EmptyDict,
        gender_lines |-> IF Has(d, "gender")
                         THEN PercentLines(d.gender, d.total) ELSE EmptyDict,
        age_group_lines |-> IF Has(d, "age_groups")
                            THEN PercentLines(d.age_groups, d.total)
                            ELSE EmptyDict,
        metric_lines |-> [x \in Metrics \cap DOMAIN h |->
                              [mean |-> h[x].mean, min |-> h[x].min,
                               max |-> h[x].max]],
        bmi_lines |-> IF Has(h, "bmi_categories")
                      THEN PercentLines(h.bmi_categories, d.total)
                      ELSE EmptyDict,
        bp_lines |-> IF Has(h, "blood_pressure_categories")
                     THEN PercentLines(h.blood_pressure_categories, d.total)
                     ELSE EmptyDict,
        top_allergies |-> IF Has(m, "allergy_stats")
                          THEN Top(m.allergy_stats) ELSE <<>>,
        top_diseases |-> IF Has(m, "disease_stats")
                         THEN Top(m.disease_stats) ELSE <<>>]

\* generate_report without its first test
generate_report_NoGuard(rows) == ReportSections(rows)

\* generate_report: the no-data text, or the report as its sections
generate_report(rows) ==
    IF rows = <<>> THEN NoDataReport ELSE ReportSections(rows)

\* the three analyses run in the order generate_report calls them
AnalyzeMedicalHistory ==
    /\ lpc = "loaded"
    /\ demographics # NotRun
    /\ health_metrics # NotRun
    /\ medical_history = NotRun
    /\ medical_history' = analyze_medical_history(data)
    /\ UNCHANGED <<fs, genVars, loadVars, demographics, health_metrics, report>>

GenerateReport ==
    /\ lpc = "loaded"
    /\ medical_history # NotRun
    /\ report = NotRun
    /\ report' = generate_report(data)
    /\ UNCHANGED <<fs, genVars, loadVars, demographics, health_metrics,
                   medical_history>>

---------------------------------------------------------------------------
(* The generator followed by the analyzer on the directory it wrote *)

AnalyzerInit ==
    /\ lpc = "none"
    /\ data_dir = "unset"
    /\ json_files = {}
    /\ opened = {}
    /\ data = <<>>
    /\ demographics = NotRun
    /\ health_metrics = NotRun
    /\ medical_history = NotRun
    /\ report = NotRun

Init ==
    /\ config \in Configs
    /\ config0 = config
    /\ fs = EmptyDir
    /\ pc = "idle"
    /\ num_people = 0
    /\ out_dir = config.output_directory
    /\ i = 0
    /\ all_data = <<>>
    /\ attempts = <<>>
    /\ AnalyzerInit

AnalyzerNext ==
    \/ Construct
    \/ \E name \in Names : LoadJson(name)
    \/ AnalyzeDemographics
    \/ AnalyzeHealthMetrics
    \/ AnalyzeMedicalHistory
    \/ GenerateReport

Next ==
    \/ \E n \in 0..MaxPeople, arg \in Dirs \cup {NoArg} : Call(n, arg)
    \/ \E name \in Names, d \in Draws, point \in FailPoints \cup {"none"} :
           Iterate(name, d, point)
    \/ Interrupt
    \/ Return
    \/ AnalyzerNext

Spec == Init /\ [][Next]_vars

---------------------------------------------------------------------------
(* The analyzer alone, on a directory holding any files *)

RecordOf(name, d) ==
    Update(Update(generate_personal_info(name, d),
                  generate_health_metrics(generate_personal_info(name, d), d)),
           generate_medical_history(d))

DocOf(name, d) ==
    person_data(generate_personal_info(name, d),
                generate_health_metrics(generate_personal_info(name, d), d),
                generate_medical_history(d))

Without(f, key) == [k \in DOMAIN f \ {key} |-> f[k]]

\* health_data.json files as they can lie in a folder: none, cut short, written
\* by the generator, and well-formed documents from elsewhere (no age; a bmi
\* of 0.0; no diastolic pressure; the medical_history group missing)
JsonFilesOf(name) ==
    {Absent, Truncated,
     JsonDoc(DocOf(name, Draw1)),
     JsonDoc([DocOf(name, Draw2) EXCEPT
                  !.personal_info = Without(@, "age")]),
     JsonDoc([DocOf(name, Draw2) EXCEPT !.health_metrics.bmi = FloatV(0)]),
     JsonDoc([DocOf(name, Draw1) EXCEPT
                  !.health_metrics = Without(@, "blood_pressure_diastolic")]),
     JsonDoc(Without(DocOf(name, Draw1), "medical_history"))}

FoldersOf(name) == {NoFolder} \cup {[exists |-> TRUE, json |-> f] : f \in JsonFilesOf(name)}

NameA == <<"Li", "An">>
NameB == <<"Wu", "An">>

GeneratedRows ==
    <<ProcessedRow(RecordOf(NameA, Draw1), FieldOrder),
      ProcessedRow(RecordOf(NameB, Draw2), FieldOrder)>>

ColumnOf(key) == CHOOSE k \in DOMAIN FieldOrder : FieldOrder[k] = key

\* health_data_summary.csv files: none, written by the generator, with empty
\* age and bmi cells in the second row, with a cell int() rejects, with the
\* ages 17 and 76
CsvFiles ==
    {Absent,
     CsvFile(FieldOrder, GeneratedRows),
     CsvFile(FieldOrder,
             [GeneratedRows EXCEPT ![2][ColumnOf("age")] = <<>>,
                                   ![2][ColumnOf("bmi")] = <<>>]),
     CsvFile(FieldOrder,
             [GeneratedRows EXCEPT ![2][ColumnOf("heart_rate")] = <<"x">>]),
     CsvFile(FieldOrder,
             [GeneratedRows EXCEPT ![1][ColumnOf("age")] = <<"1", "7">>,
                                   ![2][ColumnOf("age")] = <<"7", "6">>])}

InitLoad ==
    /\ config = [output_directory |-> DefaultDir, template_image |-> "1.png",
                 generate_csv |-> TRUE, generate_json |-> TRUE,
                 create_folders |-> TRUE, copy_template |-> TRUE]
    /\ config0 = config
    /\ \E fa \in FoldersOf(NameA), fb \in FoldersOf(NameB), c \in CsvFiles :
           fs = [persons |-> (NameA :> fa) @@ (NameB :> fb), csv |-> c]
    /\ pc = "off"
    /\ num_people = 0
    /\ out_dir = DefaultDir
    /\ i = 0
    /\ all_data = <<>>
    /\ attempts = <<>>
    /\ AnalyzerInit

SpecLoad == InitLoad /\ [][AnalyzerNext]_vars

---------------------------------------------------------------------------
(* The analyses alone, on records already loaded *)

SeqsUpTo(S, n) == UNION {[1..k -> S] : k \in 0..n}

\* an analyzer whose load_data has returned rows
Loaded(rows) ==
    /\ config = [output_directory |-> DefaultDir, template_image |-> "1.png",
                 generate_csv |-> TRUE, generate_json |-> TRUE,
                 create_folders |-> TRUE, copy_template |-> TRUE]
    /\ config0 = config
    /\ fs = EmptyDir
    /\ pc = "off"
    /\ num_people = 0
    /\ out_dir = DefaultDir
    /\ i = 0
    /\ all_data = <<>>
    /\ attempts = <<>>
    /\ lpc = "loaded"
    /\ data_dir = DefaultDir
    /\ json_files = {}
    /\ opened = {}
    /\ data = rows
    /\ demographics = NotRun
    /\ health_metrics = NotRun
    /\ medical_history = NotRun
    /\ report = NotRun

StatsNext ==
    \/ AnalyzeDemographics
    \/ AnalyzeHealthMetrics
    \/ AnalyzeMedicalHistory
    \/ GenerateReport

\* records holding a blood pressure pair on and around every threshold of
\* analyze_bp_categories
BpRows ==
    {[blood_pressure_systolic |-> IntV(sy), blood_pressure_diastolic |-> IntV(di)] :
        sy \in {119, 120, 129, 130, 139, 140}, di \in {79, 80, 89, 90}}
    \cup {[blood_pressure_systolic |-> IntV(125),
           blood_pressure_diastolic |-> IntV(70)]}

InitBp == \E rows \in SeqsUpTo(BpRows, MaxRows) : Loaded(rows)

SpecBp == InitBp /\ [][StatsNext]_vars

\* records with or without a heart rate (an int) and a body temperature (a
\* float), zero values included; the other five metrics are absent
HeartRates == {IntV(0), IntV(60), IntV(61), IntV(100)}
Temperatures == {FloatV(0), FloatV(3650), FloatV(3725)}

MetricRows ==
    {[heart_rate |-> hr, body_temperature |-> bt] :
        hr \in HeartRates, bt \in Temperatures}
    \cup {[heart_rate |-> hr] : hr \in HeartRates}
    \cup {[body_temperature |-> bt] : bt \in Temperatures}
    \cup {[name |-> StrV(<<"Li", "An">>)]}

InitMetrics == \E rows \in SeqsUpTo(MetricRows, MaxRows) : Loaded(rows)

SpecMetrics == InitMetrics /\ [][StatsNext]_vars

\* records with allergies and chronic diseases as lists (loaded from
\* health_data.json) and as '; '-joined text (loaded from the csv file);
\* seven allergies and six diseases occur in them
Item(w) == <<w>>

TextOf(l) == StrV(Join(l))

MedicalRows ==
    {[allergies |-> ListV(<<Item("pollen"), Item("dust"), Item("peanut")>>)],
     [allergies |-> ListV(<<Item("shrimp"), Item("penicillin"), Item("latex"),
                            Item("peanut"), Item("pollen")>>),
      chronic_diseases |-> ListV(<<>>)],
     [allergies |-> TextOf(<<Item("latex"), Item("dust"), Item("mold")>>),
      chronic_diseases |-> TextOf(<<>>)],
     [allergies |-> ListV(<<Item("dust")>>),
      chronic_diseases |-> ListV(<<Item("asthma"), Item("diabetes")>>)],
     [allergies |-> TextOf(<<>>),
      chronic_diseases |-> TextOf(<<Item("diabetes"), Item("gout")>>)],
     [chronic_diseases |->
          ListV(<<Item("gout"), Item("arthritis"), Item("migraine"),
                  Item("hypertension")>>)]}

InitMedical == \E rows \in SeqsUpTo(MedicalRows, MaxRows) : Loaded(rows)

SpecMedical == InitMedical /\ [][StatsNext]_vars

---------------------------------------------------------------------------
(* Properties of generate_batch_data *)

Succeeded == {k \in DOMAIN attempts : attempts[k].point = "none"}

\* the records of the iterations that did not raise, in generation order
RECURSIVE RecordsOf(_)
RecordsOf(log) ==
    IF log = <<>> THEN <<>>
    ELSE (IF Head(log).point = "none" THEN <<Head(log).rec>> ELSE <<>>)
         \o RecordsOf(Tail(log))

FoldersEnabled == config.create_folders /\ config.generate_json

PersonDirs == {n \in Names : fs.persons[n].exists}

ThreeGroups(file) ==
    file.kind = "doc" /\ DOMAIN file.groups = Range(Groups)

\* C1: when generate_batch_data(n, dir) returns, all n iterations were
\* attempted whatever iterations raised, the returned list holds exactly the
\* records of the iterations that did not raise, in generation order, and with
\* no failure its length is n.
C1_BatchSkipsFailures ==
    /\ pc = "loop" => Len(attempts) = i /\ all_data = RecordsOf(attempts)
    /\ pc = "returned" =>
           /\ Len(attempts) = num_people
           /\ all_data = RecordsOf(attempts)
           /\ Succeeded = DOMAIN attempts => Len(all_data) = num_people

C1_Witness ==
    /\ pc = "returned"
    /\ num_people = 2
    /\ attempts[1].point # "none"
    /\ attempts[2].point = "none"
    /\ Len(all_data) = 1

\* C2: with generate_csv set and at least one record generated, the csv file
\* generate_batch_data wrote has, after the header, exactly one row per record
\* of the returned list, in the same order, and none for a skipped record.
C2_CsvRowsAreReturnedRecords ==
    (pc = "returned" /\ config.generate_csv /\ all_data # <<>>) =>
        /\ fs.csv.kind = "csv"
        /\ fs.csv.header = FieldOrder
        /\ Len(fs.csv.rows) = Len(all_data)
        /\ Len(fs.csv.rows) = Cardinality(Succeeded)
        /\ \A k \in DOMAIN all_data :
               /\ fs.csv.rows[k][ColumnOf("name")] = all_data[k].name.v
               /\ fs.csv.rows[k][ColumnOf("id_number")] = all_data[k].id_number.v
               /\ fs.csv.rows[k][ColumnOf("created_date")] = all_data[k].created_date.v

C2_Witness ==
    /\ pc = "returned"
    /\ config.generate_csv
    /\ Len(attempts) = 2
    /\ Len(all_data) = 1
    /\ fs.csv.kind = "csv"

LastWriter(k) ==
    /\ attempts[k].point = "none"
    /\ \A l \in DOMAIN attempts :
           (l > k /\ attempts[l].point \in {"none", "dump"}) =>
               attempts[l].name # attempts[k].name

\* C4: when two records of a batch get the same name, the later one's
\* health_data.json overwrites the earlier one's (the file ends up holding the
\* last record written under that name), and nothing is de-duplicated: both
\* records are in the returned list and in the csv file.
C4_LastWriteWins ==
    (pc = "returned" /\ FoldersEnabled) =>
        \A j, k \in Succeeded :
            (j < k /\ attempts[j].name = attempts[k].name) =>
                /\ LastWriter(k) =>
                       /\ ThreeGroups(fs.persons[attempts[k].name].json)
                       /\ Flatten(fs.persons[attempts[k].name].json) = attempts[k].rec
                /\ \E a, b \in DOMAIN all_data :
                       a < b /\ all_data[a] = attempts[j].rec /\ all_data[b] = attempts[k].rec
                /\ config.generate_csv =>
                       \E a, b \in DOMAIN fs.csv.rows :
                           /\ a < b
                           /\ fs.csv.rows[a] = ProcessedRow(attempts[j].rec, FieldOrder)
                           /\ fs.csv.rows[b] = ProcessedRow(attempts[k].rec, FieldOrder)

C4_Witness ==
    /\ pc = "returned"
    /\ FoldersEnabled
    /\ config.generate_csv
    /\ Succeeded = {1, 2}
    /\ attempts[1].name = attempts[2].name
    /\ attempts[1].rec # attempts[2].rec
    /\ Flatten(fs.persons[attempts[2].name].json) = attempts[2].rec
    /\ Len(fs.csv.rows) = 2

---------------------------------------------------------------------------
(* Round trip through health_data_summary.csv *)

\* the batch returned and wrote its records as the csv file
Persisted == pc = "returned" /\ config.generate_csv /\ all_data # <<>>

NumericFields ==
    {"age", "bmi", "blood_pressure_systolic", "blood_pressure_diastolic", "heart_rate"}

\* C5: loading the directory of a batch persisted as the csv file yields as
\* many records, in the same order, and in each of them age, bmi, both blood
\* pressures and heart_rate are numerically equal to the generated values.
C5_NumericRoundTrip ==
    (Persisted /\ lpc # "none") =>
        /\ lpc = "loaded"
        /\ Len(data) = Len(all_data)
        /\ \A k \in DOMAIN all_data :
               /\ data[k].name = all_data[k].name
               /\ \A f \in NumericFields :
                      /\ Has(data[k], f)
                      /\ data[k][f].t \in {"int", "float"}
                      /\ Num(data[k][f]) = Num(all_data[k][f])

C5_Witness ==
    /\ Persisted
    /\ lpc = "loaded"
    /\ Len(data) = 2
    /\ data[1].bmi.v % 10 # 0
    /\ data[2].bmi.v % 100 = 0
    /\ data[1].name # data[2].name

\* C6, as claimed: after the round trip each of the five medical fields of a
\* loaded record is a list holding the same set of items as the generated list.
C6_Claimed ==
    (Persisted /\ lpc = "loaded") =>
        \A k \in DOMAIN data : \A f \in ListFields :
            /\ data[k][f].t = "list"
            /\ Range(data[k][f].v) = Range(all_data[k][f].v)

\* C6, amended: after the round trip each of the five medical fields of a
\* loaded record is still text, empty for an empty list; splitting it at ';'
\* and stripping the pieces, as analyze_medical_history does, gives the
\* generated items back in the generated order.
C6_ListsLoadAsText ==
    (Persisted /\ lpc = "loaded") =>
        /\ Len(data) = Len(all_data)
        /\ \A k \in DOMAIN data : \A f \in ListFields :
               /\ data[k][f].t = "str"
               /\ data[k][f].v = <<>> <=> all_data[k][f].v = <<>>
               /\ SplitItems(data[k][f].v) = all_data[k][f].v

C6_Witness ==
    /\ Persisted
    /\ lpc = "loaded"
    /\ \E k \in DOMAIN data :
           /\ Len(all_data[k].family_history.v) = 3
           /\ Len(all_data[k].allergies.v) = 2
           /\ all_data[k].surgeries.v = <<>>
           /\ data[k].surgeries = StrV(<<>>)
           /\ Len(SplitItems(data[k].family_history.v)) = 3

---------------------------------------------------------------------------
(* Properties of the loader *)

CsvPresent == fs.csv.kind = "csv"

\* the folders that hold a health_data.json, whatever is in it
JsonPresent == {n \in Names : fs.persons[n].exists /\ fs.persons[n].json.kind # "absent"}

\* a health_data.json that parses and holds the three groups
GoodJson(n) ==
    /\ fs.persons[n].json.kind = "doc"
    /\ \A g \in Range(Groups) : g \in DOMAIN fs.persons[n].json.groups

\* r holds every field of the three groups of n's file, and nothing else
CompleteRecordOf(r, n) ==
    LET gs == fs.persons[n].json.groups
    IN /\ DOMAIN r = UNION {DOMAIN gs[g] : g \in Range(Groups)}
       /\ \A g \in Range(Groups) : \A key \in DOMAIN gs[g] : r[key] = gs[g][key]

\* C7: the loader uses one source: when health_data_summary.csv exists the
\* records come from it alone, row by row, and no health_data.json is opened;
\* only when it is absent are the health_data.json files opened, and each
\* record loaded is the content of one of them.
C7_OneSource ==
    lpc # "none" =>
        IF CsvPresent
        THEN /\ opened = {}
             /\ json_files = {}
             /\ lpc \in {"loaded", "raised"}
             /\ Len(data) <= Len(fs.csv.rows)
             /\ lpc = "loaded" => Len(data) = Len(fs.csv.rows)
             /\ \A k \in DOMAIN data :
                    data[k].name.v = fs.csv.rows[k][ColumnOf("name")]
        ELSE /\ opened \cup json_files = JsonPresent
             /\ opened \cap json_files = {}
             /\ lpc = "loaded" => opened = JsonPresent
             /\ Len(data) <= Cardinality(opened)
             /\ \A k \in DOMAIN data :
                    \E n \in opened : GoodJson(n) /\ CompleteRecordOf(data[k], n)

C7_Witness ==
    /\ lpc = "loaded"
    /\ CsvPresent
    /\ \E n \in Names : GoodJson(n)
    /\ Len(data) = 2
    /\ opened = {}

\* C8: loading from health_data.json files, of which some are cut short or
\* lack one of the three groups: a failing file is skipped and the load goes
\* on, every other file is loaded, and the loaded sequence holds exactly one
\* complete flattened record per file that parsed, and nothing of a failing one.
C8_FailingFilesSkipped ==
    ~CsvPresent =>
        /\ lpc # "raised"
        /\ lpc = "loaded" => opened = JsonPresent
        /\ Len(data) = Cardinality({n \in opened : GoodJson(n)})
        /\ \A n \in opened :
               GoodJson(n) =>
                   Cardinality({k \in DOMAIN data : CompleteRecordOf(data[k], n)}) = 1
        /\ \A k \in DOMAIN data :
               \E n \in opened : GoodJson(n) /\ CompleteRecordOf(data[k], n)

\* a file lacking a group was opened and skipped, and the file after it loaded
C8_Witness ==
    /\ ~CsvPresent
    /\ lpc = "loaded"
    /\ Cardinality(opened) = 2
    /\ \E n \in opened : fs.persons[n].json.kind = "doc" /\ ~GoodJson(n)
    /\ \E n \in opened : GoodJson(n) /\ data = <<Flatten(fs.persons[n].json)>>

---------------------------------------------------------------------------
(* Properties of the statistics *)

RECURSIVE SumCounts(_)
SumCounts(f) ==
    IF DOMAIN f = {} THEN 0
    ELSE LET x == CHOOSE y \in DOMAIN f : TRUE
         IN f[x] + SumCounts([y \in DOMAIN f \ {x} |-> f[y]])

\* C9: for every loaded record sequence the five age-bucket counts of
\* analyze_demographics sum to the total record count of the same result.
C9_AgeGroupsSumToTotal ==
    Has(demographics, "age_groups") =>
        SumCounts(demographics.age_groups) = demographics.total

\* C10: for every non-empty loaded record sequence the four BMI-bucket counts
\* of analyze_health_metrics sum to the total record count.
C10_BmiCategoriesSumToTotal ==
    (data # <<>> /\ Has(health_metrics, "bmi_categories")) =>
        SumCounts(health_metrics.bmi_categories) = Len(data)

\* C11: over a non-empty loaded sequence the four blood pressure buckets of
\* analyze_health_metrics sum to the number of records
C11_BpCategoriesSumToTotal ==
    (data # <<>> /\ Has(health_metrics, "blood_pressure_categories"))
        => SumCounts(health_metrics.blood_pressure_categories) = Len(data)

---------------------------------------------------------------------------
(* Properties of analyze_bp_categories *)

\* the rules of the blood pressure classification, in mmHg
RuleNormal(sy, di) == sy < 120 /\ di < 80
RuleElevated(sy, di) == 120 <= sy /\ sy < 130 /\ di < 80
RuleStage1(sy, di) == (130 <= sy /\ sy < 140) \/ (80 <= di /\ di < 90)

FirstRule(sy, di) ==
    CASE RuleNormal(sy, di) -> "normal"
      [] ~RuleNormal(sy, di) /\ RuleElevated(sy, di) -> "elevated"
      [] ~RuleNormal(sy, di) /\ ~RuleElevated(sy, di) /\ RuleStage1(sy, di) -> "stage1"
      [] OTHER -> "stage2"

HasPair(row) ==
    Has(row, "blood_pressure_systolic") /\ Has(row, "blood_pressure_diastolic")

PairsIn(c) ==
    {k \in DOMAIN data :
        HasPair(data[k]) /\ FirstRule(data[k].blood_pressure_systolic.v,
                                      data[k].blood_pressure_diastolic.v) = c}

\* C12: analyze_bp_categories counts every pair in exactly one bucket, the one
\* of the first rule that matches in the order normal, elevated, stage 1,
\* stage 2; a pair of 125/70 is counted as elevated and not as normal
C12_FirstMatchingRule ==
    Has(health_metrics, "blood_pressure_categories") =>
        LET cats == health_metrics.blood_pressure_categories
        IN /\ \A c \in BpCategoryNames : cats[c] = Cardinality(PairsIn(c))
           /\ SumCounts(cats) = Cardinality({k \in DOMAIN data : HasPair(data[k])})
           /\ (\A k \in DOMAIN data :
                  /\ HasPair(data[k])
                  /\ data[k].blood_pressure_systolic.v = 125
                  /\ data[k].blood_pressure_diastolic.v = 70)
               => cats = [c \in BpCategoryNames |->
                             IF c = "elevated" THEN Len(data) ELSE 0]

\* the buckets are computed for a 125/70 record and a record on the stage 1
\* and stage 2 border
C12_Witness ==
    /\ Has(health_metrics, "blood_pressure_categories")
    /\ Len(data) = 2
    /\ data[1].blood_pressure_systolic.v = 125
    /\ data[1].blood_pressure_diastolic.v = 70
    /\ data[2].blood_pressure_systolic.v = 139
    /\ data[2].blood_pressure_diastolic.v = 90
    /\ health_metrics.blood_pressure_categories.elevated = 1
    /\ health_metrics.blood_pressure_categories.stage1 = 1

---------------------------------------------------------------------------
(* Properties of the analyses without data *)

PercentSections == {"gender_lines", "age_group_lines", "bmi_lines", "bp_lines"}

\* C13: with zero loaded records analyze_demographics, analyze_health_metrics
\* and analyze_medical_history each return the empty dict and generate_report
\* returns the no-data text, none of them raising; and no report holds a
\* percentage computed with a total of zero
C13_NoDataNoDivision ==
    /\ (lpc = "loaded" /\ data = <<>>) =>
           /\ demographics \in {NotRun, EmptyDict}
           /\ health_metrics \in {NotRun, EmptyDict}
           /\ medical_history \in {NotRun, EmptyDict}
           /\ report \in {NotRun, NoDataReport}
    /\ report \notin {NotRun, NoDataReport} =>
           \A sec \in PercentSections : \A c \in DOMAIN report[sec] :
               ~Has(report[sec][c], "raised") /\ report[sec][c].of > 0

\* a directory whose only health_data.json cannot be parsed: nothing is
\* loaded, the three analyses have returned {} and the report is the no-data
\* text
C13_Witness ==
    /\ lpc = "loaded"
    /\ opened # {}
    /\ data = <<>>
    /\ demographics = EmptyDict
    /\ health_metrics = EmptyDict
    /\ medical_history = EmptyDict
    /\ report = NoDataReport

---------------------------------------------------------------------------
(* Properties of the metric statistics *)

\* the records that hold metric with a value other than 0 and 0.0
Contributing(metric) ==
    {k \in DOMAIN data : Has(data[k], metric) /\ data[k][metric].v # 0}

\* the values of a set of records under metric, in hundredths, in any order
ValuesOf(ks, metric) ==
    LET f == CHOOSE g \in [1..Cardinality(ks) -> ks] :
                 \A a, b \in 1..Cardinality(ks) : g[a] = g[b] => a = b
    IN [j \in 1..Cardinality(ks) |-> Num(data[f[j]][metric])]

Abs(x) == IF x < 0 THEN -x ELSE x

\* st holds the statistics of the numbers xs: smallest, largest, mean and
\* median to the nearest hundredth, and the sample standard deviation to the
\* nearest hundredth, 0 for fewer than two numbers
StatisticsOf(st, xs) ==
    LET n == Len(xs)
        lo == CHOOSE x \in Range(xs) : \A y \in Range(xs) : x <= y
        hi == CHOOSE x \in Range(xs) : \A y \in Range(xs) : x >= y
        dev == [j \in DOMAIN xs |-> xs[j] - lo]
        a == n * SumSeq([j \in DOMAIN xs |-> dev[j] * dev[j]])
                 - SumSeq(dev) * SumSeq(dev)
        b == n * (n - 1)
        s == st.stdev
    IN /\ st.min = lo
       /\ st.max = hi
       /\ 2 * Abs(n * st.mean - SumSeq(xs)) <= n
       /\ 2 * Cardinality({j \in DOMAIN xs : xs[j] <= st.median}) >= n
       /\ 2 * Cardinality({j \in DOMAIN xs : xs[j] >= st.median - 1}) >= n
       /\ n < 2 => s = 0
       /\ n >= 2 => /\ s >= 0
                    /\ s = 0 \/ (2 * s - 1) * (2 * s - 1) * b <= 4 * a
                    /\ 4 * a < (2 * s + 1) * (2 * s + 1) * b

\* C14: the statistics of each of the seven metrics are those of exactly the
\* values of the records holding the metric with a non-zero value: a missing
\* or zero value contributes to none of them, the standard deviation is 0 for
\* fewer than two such values, and a metric without such a value has no entry
C14_MetricsOverNonZeroValues ==
    Has(health_metrics, "bmi_categories") =>
        \A metric \in Metrics :
            IF Contributing(metric) = {} THEN ~Has(health_metrics, metric)
            ELSE /\ Has(health_metrics, metric)
                 /\ StatisticsOf(health_metrics[metric],
                                 ValuesOf(Contributing(metric), metric))

\* a heart rate of 0 next to one of 60, and two different temperatures: the
\* heart rate statistics are those of 60 alone with deviation 0, those of the
\* temperature have deviation 0.53, and bmi has no entry
C14_Witness ==
    /\ Len(data) = 2
    /\ data[1] = [heart_rate |-> IntV(0), body_temperature |-> FloatV(3650)]
    /\ data[2] = [heart_rate |-> IntV(60), body_temperature |-> FloatV(3725)]
    /\ Has(health_metrics, "heart_rate")
    /\ health_metrics.heart_rate =
           [mean |-> 6000, median |-> 6000, min |-> 6000, max |-> 6000, stdev |-> 0]
    /\ health_metrics.body_temperature.stdev = 53
    /\ ~Has(health_metrics, "bmi")

---------------------------------------------------------------------------
(* Properties of the rankings of the report *)

\* the items of record k under key
RowItems(k, key) ==
    IF Has(data[k], key) /\ Truthy(data[k][key]) THEN ItemsOf(data[k][key])
    ELSE <<>>

\* where item x occurs: <<record, position in the record>>
Seen(x, key) ==
    {<<k, j>> \in (DOMAIN data) \X (1..7) :
        j \in DOMAIN RowItems(k, key) /\ RowItems(k, key)[j] = x}

ItemsUnder(key) == UNION {Range(RowItems(k, key)) : k \in DOMAIN data}

Earlier(p, q) == p[1] < q[1] \/ (p[1] = q[1] /\ p[2] < q[2])

\* x is seen for the first time before y is
SeenFirst(x, y, key) ==
    \E p \in Seen(x, key) : \A q \in Seen(y, key) : Earlier(p, q)

\* list is the ranking of the items under key: at most five <<item, count>>
\* lines, each with the number of occurrences of its item, by descending
\* count, equal counts in first-seen order, no unlisted item above a listed one
RankingOf(list, key) ==
    /\ Len(list) <= 5
    /\ Len(list) = 5 \/ Len(list) = Cardinality(ItemsUnder(key))
    /\ \A a \in DOMAIN list :
           /\ list[a][1] \in ItemsUnder(key)
           /\ list[a][2] = Cardinality(Seen(list[a][1], key))
    /\ \A a, b \in DOMAIN list :
           a < b => /\ list[a][2] >= list[b][2]
                    /\ list[a][1] # list[b][1]
                    /\ list[a][2] = list[b][2]
                           => SeenFirst(list[a][1], list[b][1], key)
    /\ \A x \in ItemsUnder(key) \ {list[a][1] : a \in DOMAIN list} :
           \A a \in DOMAIN list : Cardinality(Seen(x, key)) <= list[a][2]

\* C15: the medical history section of the report lists at most 5 allergies
\* and at most 5 chronic diseases, by descending count, equal counts in
\* first-seen order, and no item outside the listed five has a higher count
\* than a listed one
C15_TopFiveRankings ==
    Has(report, "top_allergies") =>
        /\ RankingOf(report.top_allergies, "allergies")
        /\ RankingOf(report.top_diseases, "chronic_diseases")

\* seven allergies loaded, one of them twice: the report lists five, the
\* double one first and the others in the order they were first seen
C15_Witness ==
    /\ Has(report, "top_allergies")
    /\ Cardinality(ItemsUnder("allergies")) = 7
    /\ data[1].allergies.t = "str"
    /\ report.top_allergies =
           <<<<Item("latex"), 2>>, <<Item("dust"), 1>>, <<Item("mold"), 1>>,
             <<Item("shrimp"), 1>>, <<Item("penicillin"), 1>>>>

---------------------------------------------------------------------------
(* Properties of the generator's configuration and records *)

\* C16: the configuration is read-only after construction: whatever calls of
\* generate_batch_data were made, with or without an output_directory
\* argument, every key of config has the value it had when the constructor
\* returned
C16_ConfigReadOnly == config = config0

\* bmi (in hundredths) is weight / (height / 100) ** 2 to the nearest
\* hundredth, for a height and a weight with one decimal (in hundredths)
NearestBmi(bmi, height, weight) ==
    LET a == (weight \div 10) * 100000
        b == (height \div 10) * (height \div 10)
        q == a \div b
        r == a % b
    IN /\ height % 10 = 0
       /\ weight % 10 = 0
       /\ 2 * Abs(100 * r - (bmi - 100 * q) * b) <= b

\* C17: the bmi of every generated record is calculate_bmi of the height and
\* weight of the same record: weight / (height / 100) ** 2 of the stored,
\* already rounded values, rounded to 2 decimals
C17_BmiOfStoredHeightWeight ==
    \A k \in DOMAIN all_data :
        /\ all_data[k].bmi = FloatV(calculate_bmi(all_data[k].height.v,
                                                  all_data[k].weight.v))
        /\ NearestBmi(all_data[k].bmi.v, all_data[k].height.v, all_data[k].weight.v)

\* a record drawn with height 170.04 and weight 64.98 holds 170.0, 65.0 and
\* the bmi 22.49 of these
C17_Witness ==
    /\ pc = "returned"
    /\ all_data # <<>>
    /\ all_data[1].height = FloatV(17000)
    /\ all_data[1].weight = FloatV(6500)
    /\ all_data[1].bmi = FloatV(2249)

\* C18: a batch run that stops partway, after k records were generated and
\* persisted, leaves the per-person files of those records and a complete
\* csv file holding exactly those k records
C18_PartialRunLeavesCsv ==
    (pc = "interrupted" /\ config.generate_csv /\ all_data # <<>>) =>
        /\ FoldersEnabled =>
               \A k \in DOMAIN all_data : fs.persons[all_data[k].name.v].exists
        /\ fs.csv.kind = "csv"
        /\ Len(fs.csv.rows) = Len(all_data)

Letters ==
    {"A", "B", "C", "D", "E", "F", "G", "H", "I", "J", "K", "L", "M", "N", "O",
     "P", "Q", "R", "S", "T", "U", "V", "W", "X", "Y", "Z"}

\* C19: every generated record has an age in 18..80, one of the two genders,
\* a blood type of A, B, AB, O, a phone of 09 and 8 digits (length 10), and
\* an identifier of length 10: a letter, a digit 1 or 2, and digits
C19_RecordFormats ==
    \A k \in DOMAIN all_data :
        LET rec == all_data[k]
        IN /\ rec.age.v \in 18..80
           /\ rec.gender.v \in {<<"M">>, <<"F">>}
           /\ rec.blood_type.v \in {<<"A">>, <<"B">>, <<"AB">>, <<"O">>}
           /\ Len(rec.phone.v) = 10
           /\ SubSeq(rec.phone.v, 1, 2) = <<"0", "9">>
           /\ AllDigits(rec.phone.v)
           /\ Len(rec.id_number.v) = 10
           /\ rec.id_number.v[1] \in Letters
           /\ rec.id_number.v[2] \in {"1", "2"}
           /\ AllDigits(Tail(rec.id_number.v))

---------------------------------------------------------------------------
(* Properties of analyze_age_groups *)

OutsideBuckets(age) == age < 18 \/ age > 75

\* C20: the last age bucket is a catch-all: analyze_age_groups counts every
\* age outside 18..75 in the 76+ bucket, an age below 18 included, such as the
\* 0 the csv loader puts for an empty age cell
C20_LastBucketCatchesAll ==
    Has(demographics, "age_groups") =>
        demographics.age_groups["76+"] =
            Cardinality({k \in DOMAIN data :
                            Has(data[k], "age") /\ OutsideBuckets(data[k].age.v)})

\* a csv file whose second row has an empty age cell: the record is loaded
\* with age 0 and is the one record of the 76+ bucket
C20_Witness ==
    /\ CsvPresent
    /\ Len(fs.csv.rows) = 2
    /\ fs.csv.rows[2][ColumnOf("age")] = <<>>
    /\ Len(data) = 2
    /\ data[1].age = IntV(18)
    /\ data[2].age = IntV(0)
    /\ Has(demographics, "age_groups")
    /\ demographics.age_groups["76+"] = 1
    /\ demographics.age_groups["18-30"] = 1

---------------------------------------------------------------------------
(* Properties of the per-person files *)

\* the per-person files of a call into an empty directory: a record that was
\* generated has a health_data.json exactly when create_folders and
\* generate_json are both set; without create_folders there is no person
\* folder at all, with create_folders alone the folder is there without a
\* health_data.json; every such record is in the returned list
PersonFilesFollowSwitches ==
    /\ \A k \in Succeeded :
           fs.persons[attempts[k].name].json.kind # "absent" <=> FoldersEnabled
    /\ ~config.create_folders =>
           \A n \in Names : ~fs.persons[n].exists /\ fs.persons[n].json = Absent
    /\ (config.create_folders /\ ~config.generate_json) =>
           /\ \A k \in Succeeded : fs.persons[attempts[k].name].exists
           /\ \A n \in Names : fs.persons[n].json = Absent
    /\ pc = "returned" => all_data = RecordsOf(attempts)

\* the csv file holds one row for each returned record
ReturnedRecordsInCsv ==
    /\ fs.csv.kind = "csv"
    /\ fs.csv.rows = [k \in DOMAIN all_data |-> ProcessedRow(all_data[k], FieldOrder)]

\* C21, as claimed: a health_data.json is written for a record if and only if
\* create_folders and generate_json are both set, and with either of them
\* unset the record is still returned and written to the csv file
C21_Claimed ==
    /\ PersonFilesFollowSwitches
    /\ (pc = "returned" /\ ~FoldersEnabled /\ all_data # <<>>)
           => ReturnedRecordsInCsv

\* C21: a health_data.json is written for a record if and only if
\* create_folders and generate_json are both set; with either of them unset
\* the record is still returned, and it is written to the csv file when
\* generate_csv is set, while without generate_csv no csv file is written
C21_JsonIffBothSwitches ==
    /\ PersonFilesFollowSwitches
    /\ (pc = "returned" /\ ~FoldersEnabled /\ all_data # <<>> /\ config.generate_csv)
           => ReturnedRecordsInCsv
    /\ ~config.generate_csv => fs.csv = Absent

\* create_folders without generate_json: two records returned, each with its
\* folder and no health_data.json, both in the csv file
C21_Witness ==
    /\ pc = "returned"
    /\ config.create_folders
    /\ ~config.generate_json
    /\ config.generate_csv
    /\ Len(all_data) = 2
    /\ \A n \in Names : fs.persons[n].exists /\ fs.persons[n].json = Absent
    /\ Len(fs.csv.rows) = 2

=============================================================================
